---- MODULE Spec2Model ----
(***************************************************************************)
(* Most Active Cookie: the log scan of CookieLogProcessor and the CLI      *)
(* around it (src/src/cookie_log_processor.py, src/src/main.py,            *)
(* src/src/arg_parser.py).                                                 *)
(*                                                                         *)
(* A Python str is a sequence of one-character strings.  A log file is a   *)
(* sequence of rows, each row the list of fields csv.reader yields for one *)
(* line.  One run is one call of main() or one direct call of process().   *)
(***************************************************************************)
EXTENDS Integers, Sequences, FiniteSets, TLC

(***************************************************************************)
(* Python str: comparison, strip                                           *)
(***************************************************************************)

\* The characters the model draws, in code point order.
Alphabet ==
    << " ", "+", "-", "0", "1", "2", "3", "4", "5", "6", "7", "8", "9",
       ":", "T", "a", "b", "x" >>

\* ord(c), up to an order-preserving renumbering.
Ord(c) == CHOOSE i \in 1..Len(Alphabet) : Alphabet[i] = c

\* Python's s < t on str: lexicographic by code point, a proper prefix first.
RECURSIVE StrLess(_, _)
StrLess(s, t) ==
    IF t = << >> THEN FALSE
    ELSE IF s = << >> THEN TRUE
    ELSE IF Head(s) = Head(t) THEN StrLess(Tail(s), Tail(t))
    ELSE Ord(Head(s)) < Ord(Head(t))

IsSpace(c) == c = " "

RECURSIVE LStrip(_)
LStrip(s) ==
    IF s = << >> THEN s
    ELSE IF IsSpace(Head(s)) THEN LStrip(Tail(s))
    ELSE s

RECURSIVE RStrip(_)
RStrip(s) ==
    IF s = << >> THEN s
    ELSE IF IsSpace(s[Len(s)]) THEN RStrip(SubSeq(s, 1, Len(s) - 1))
    ELSE s

\* str.strip()
Strip(s) == RStrip(LStrip(s))

(***************************************************************************)
(* datetime.fromisoformat, date.isoformat                                  *)
(***************************************************************************)

Digits == << "0", "1", "2", "3", "4", "5", "6", "7", "8", "9" >>

\* int(c) for each decimal digit c.
DigitValue ==
    [ c \in { Digits[i] : i \in 1..Len(Digits) } |->
          (CHOOSE i \in 1..Len(Digits) : Digits[i] = c) - 1 ]

IsDigit(c) == c \in DOMAIN DigitValue

DigitVal(c) == DigitValue[c]

\* s[i..j] is made of decimal digits.
AllDigits(s, i, j) == \A k \in i..j : IsDigit(s[k])

\* int(s[i..j]) for decimal digits.
RECURSIVE ToInt(_, _, _)
ToInt(s, i, j) ==
    IF j < i THEN 0 ELSE 10 * ToInt(s, i, j - 1) + DigitVal(s[j])

IsLeap(y) == (y % 4 = 0) /\ ((y % 100 /= 0) \/ (y % 400 = 0))

DaysInMonth(y, m) ==
    IF m = 2 THEN (IF IsLeap(y) THEN 29 ELSE 28)
    ELSE IF m \in {4, 6, 9, 11} THEN 30
    ELSE 31

\* s[1..10] is a date YYYY-MM-DD that exists.
DateOk(s) ==
    /\ Len(s) >= 10
    /\ AllDigits(s, 1, 4) /\ s[5] = "-"
    /\ AllDigits(s, 6, 7) /\ s[8] = "-"
    /\ AllDigits(s, 9, 10)
    /\ ToInt(s, 1, 4) >= 1
    /\ ToInt(s, 6, 7) \in 1..12
    /\ ToInt(s, 9, 10) >= 1
    /\ ToInt(s, 9, 10) <= DaysInMonth(ToInt(s, 1, 4), ToInt(s, 6, 7))

\* s[i..i+5] is an offset +HH:MM or -HH:MM.
OffsetOk(s, i) ==
    /\ s[i] \in {"+", "-"}
    /\ AllDigits(s, i + 1, i + 2) /\ s[i + 3] = ":"
    /\ AllDigits(s, i + 4, i + 5)
    /\ ToInt(s, i + 1, i + 2) <= 23
    /\ ToInt(s, i + 4, i + 5) <= 59

\* s[12..] is a time HH:MM:SS, with or without an offset.
TimeOk(s) ==
    /\ Len(s) \in {19, 25}
    /\ AllDigits(s, 12, 13) /\ s[14] = ":"
    /\ AllDigits(s, 15, 16) /\ s[17] = ":"
    /\ AllDigits(s, 18, 19)
    /\ ToInt(s, 12, 13) <= 23
    /\ ToInt(s, 15, 16) <= 59
    /\ ToInt(s, 18, 19) <= 59
    /\ Len(s) = 25 => OffsetOk(s, 20)

\* datetime.fromisoformat(timestamp_str) does not raise ValueError: the
\* extended form YYYY-MM-DD, alone or followed by one separator character
\* and HH:MM:SS[+HH:MM].
IsoParses(s) == DateOk(s) /\ (Len(s) > 10 => TimeOk(s))

\* datetime.fromisoformat(timestamp_str).date(): the date fields of the
\* timestamp as written, no offset applied.
IsoDate(s) ==
    [ year |-> ToInt(s, 1, 4), month |-> ToInt(s, 6, 7), day |-> ToInt(s, 9, 10) ]

\* "%0<w>d" % n
RECURSIVE ZeroPad(_, _)
ZeroPad(n, w) ==
    IF w = 0 THEN << >>
    ELSE Append(ZeroPad(n \div 10, w - 1), Digits[(n % 10) + 1])

\* date.isoformat(): "%04d-%02d-%02d"
IsoFormat(d) ==
    ZeroPad(d.year, 4) \o << "-" >> \o ZeroPad(d.month, 2) \o << "-" >>
        \o ZeroPad(d.day, 2)

\* _extract_date: the returned string (when the timestamp parses).
extract_date(timestamp_str) == IsoFormat(IsoDate(timestamp_str))

\* _extract_date raises ValueError.
ExtractDateRaises(timestamp_str) == ~IsoParses(timestamp_str)

(***************************************************************************)
(* arg_parser.py: the type= validators of the two required arguments       *)
(***************************************************************************)

\* str.split(sep) for a one-character separator.
RECURSIVE Split(_, _)
Split(s, sep) ==
    IF \A i \in 1..Len(s) : s[i] /= sep THEN << s >>
    ELSE LET k == CHOOSE i \in 1..Len(s) :
                      s[i] = sep /\ \A j \in 1..(i - 1) : s[j] /= sep
         IN  << SubSeq(s, 1, k - 1) >> \o Split(SubSeq(s, k + 1, Len(s)), sep)

\* The day directive %d also takes a space in place of a leading zero.
DayField(f) == IF Len(f) = 2 /\ f[1] = " " THEN Tail(f) ELSE f

\* datetime.strptime(date_string, "%Y-%m-%d") does not raise ValueError:
\* %Y is four digits, %m and %d one or two digits, the date exists.
StrptimeOk(date_string) ==
    LET p == Split(date_string, "-") IN
    /\ Len(p) = 3
    /\ Len(p[1]) = 4 /\ AllDigits(p[1], 1, 4) /\ ToInt(p[1], 1, 4) >= 1
    /\ Len(p[2]) \in 1..2 /\ AllDigits(p[2], 1, Len(p[2]))
    /\ ToInt(p[2], 1, Len(p[2])) \in 1..12
    /\ Len(p[3]) \in 1..2
    /\ DayField(p[3]) /= << >>
    /\ AllDigits(DayField(p[3]), 1, Len(DayField(p[3])))
    /\ ToInt(DayField(p[3]), 1, Len(DayField(p[3]))) >= 1
    /\ ToInt(DayField(p[3]), 1, Len(DayField(p[3])))
          <= DaysInMonth(ToInt(p[1], 1, 4), ToInt(p[2], 1, Len(p[2])))

\* validate_date_format returns date_string (it raises ArgumentTypeError
\* otherwise).
validate_date_format(date_string) == StrptimeOk(date_string)

\* Mutant of validate_file_exists: the path is not checked at all.
validate_file_exists_unchecked(f) == TRUE

\* validate_file_exists returns file_path: the path exists, is a regular
\* file and its size is greater than zero.  A file of size zero has no
\* line; any other file has at least one row.
validate_file_exists(f) ==
    /\ f.kind /= "missing"
    /\ f.kind /= "directory"
    /\ f.lines /= << >>

(***************************************************************************)
(* The inputs of one run                                                   *)
(***************************************************************************)

\* The largest number of lines after the header line.
MaxLines == 3

CookieA == << "a" >>
CookieB == << "b" >>
CookieAB == << "a", "b" >>

TsOnDate == << "2", "0", "1", "8", "-", "1", "2", "-", "0", "9", "T", "1", "4", ":", "1", "9", ":", "0", "0", "+", "0", "0", ":", "0", "0" >>
TsOnDateLate == << "2", "0", "1", "8", "-", "1", "2", "-", "0", "9", "T", "2", "3", ":", "1", "9", ":", "0", "0", "-", "0", "5", ":", "0", "0" >>
TsOnDateEast == << "2", "0", "1", "8", "-", "1", "2", "-", "0", "9", "T", "0", "0", ":", "3", "0", ":", "0", "0", "+", "0", "5", ":", "0", "0" >>
TsLater == << "2", "0", "1", "8", "-", "1", "2", "-", "1", "0" >>
TsEarlier == << "2", "0", "1", "8", "-", "1", "2", "-", "0", "8", "T", "2", "3", ":", "0", "0", ":", "0", "0", "+", "0", "0", ":", "0", "0" >>
TsInvalid == << "1", "0", "-", "1", "0", "-", "2", "0", "2", "5" >>

\* The rows csv.reader yields for the lines after the header: records dated
\* on, after and before the target date, a record whose timestamp does not
\* parse, and a line with one field only.
CoreRows ==
    { << CookieA, TsOnDate >>,
      << << " " >> \o CookieB \o << " " >>, << " " >> \o TsOnDateEast >>,
      << CookieA, TsLater >>,
      << CookieB, TsEarlier >>,
      << CookieA, TsInvalid >>,
      << CookieA >> }

\* The same, and the other malformed lines: three fields, a blank
\* identifier, an empty timestamp.
BodyRows ==
    CoreRows \cup
    { << CookieA, TsOnDate, CookieB >>,
      << << " " >>, TsOnDateLate >>,
      << CookieB, << >> >> }

expected_header ==
    << << "c", "o", "o", "k", "i", "e" >>,
       << "t", "i", "m", "e", "s", "t", "a", "m", "p" >> >>

\* The first line: the expected header, or a line that looks like a record.
HeaderRows == { expected_header, << CookieB, TsOnDate >> }

RECURSIVE SeqsUpTo(_, _)
SeqsUpTo(S, n) ==
    IF n = 0 THEN { << >> }
    ELSE LET shorter == SeqsUpTo(S, n - 1)
         IN  shorter \cup { Append(q, x) : q \in shorter, x \in S }

\* The file named by -f: no such path, a directory, a regular file that
\* open() refuses, or a regular file with its rows (none: size zero).
Files ==
    { [kind |-> k, lines |-> << >>] : k \in {"missing", "directory", "regular"} }
    \cup
    { [kind |-> "unreadable", lines |-> << expected_header >>] }
    \cup
    { [kind |-> "regular", lines |-> << expected_header >> \o b] :
          b \in SeqsUpTo(CoreRows, MaxLines) }
    \cup
    { [kind |-> "regular", lines |-> << h >> \o b] :
          h \in HeaderRows, b \in SeqsUpTo(BodyRows, MaxLines - 1) }

DateCanonical == << "2", "0", "1", "8", "-", "1", "2", "-", "0", "9" >>
DateUnpadded == << "2", "0", "1", "8", "-", "1", "2", "-", "9" >>
DateMalformed == << "1", "0", "-", "1", "0", "-", "2", "0", "2", "5" >>

\* The largest count of a dict handed to _find_most_active directly.
MaxTally == 2

Cookies == { CookieA, CookieAB, CookieB }

\* The dicts a caller hands to _find_most_active: distinct keys in any
\* insertion order, each with a count.
RECURSIVE CounterTablesOver(_)
CounterTablesOver(keys) ==
    { << >> } \cup
    UNION { { << [cookie |-> c, count |-> n] >> \o t :
                  n \in 0..MaxTally, t \in CounterTablesOver(keys \ {c}) } :
            c \in keys }

CounterTables == CounterTablesOver(Cookies)

\* The files of the runs that end in argument parsing whatever they hold.
SmallFiles == { f \in Files : Len(f.lines) <= 2 }

\* The files of the runs whose -d is accepted but not zero-padded, and of
\* the direct calls of process().
ShortFiles == { f \in Files : Len(f.lines) <= MaxLines }

\* The runs: main() with what -f and -d hold; process() and
\* _find_most_active() called directly, as the tests do, with a YYYY-MM-DD
\* date (and, for _find_most_active, a file that does not exist).
Runs ==
    { [entry |-> "main", file |-> f, date |-> DateCanonical, counts |-> << >>] :
          f \in Files }
    \cup
    { [entry |-> "main", file |-> f, date |-> DateUnpadded, counts |-> << >>] :
          f \in ShortFiles }
    \cup
    { [entry |-> "main", file |-> f, date |-> DateMalformed, counts |-> << >>] :
          f \in SmallFiles }
    \cup
    { [entry |-> "process", file |-> f, date |-> DateCanonical, counts |-> << >>] :
          f \in ShortFiles }
    \cup
    { [entry |-> "find_most_active",
       file |-> [kind |-> "missing", lines |-> << >>],
       date |-> DateCanonical, counts |-> t] : t \in CounterTables }

(***************************************************************************)
(* State                                                                   *)
(***************************************************************************)

VARIABLES
    entry,              \* what is run: "main", or "process" / "find_most_active" called directly
    file,               \* the file self.filename names
    target_date,        \* args.date / self.target_date
    pc,                 \* where the run is
    stream,             \* the file object of _read_cookie_log: "unopened", "open", "closed"
    rows_read,          \* rows the csv reader has handed out so far, the header included
    record,             \* the pair the generator yielded last: << >> or << cookie, timestamp >>
    yielded,            \* row numbers of the pairs yielded so far, in order
    cookie_counts,      \* the dict of _count_cookies_for_date, in insertion order
    processed_entries,
    relevant_entries,
    warnings,           \* logger.warning calls so far
    most_active,        \* the list process() returns
    raised,             \* the exception that left process(): "none" or its class
    stdout,             \* the lines main printed
    exit_status         \* << >> while running, << code >> once the interpreter exited

vars ==
    << entry, file, target_date, pc, stream, rows_read, record, yielded,
       cookie_counts, processed_entries, relevant_entries, warnings,
       most_active, raised, stdout, exit_status >>

Init ==
    /\ \E r \in Runs :
          /\ entry = r.entry
          /\ file = r.file
          /\ target_date = r.date
          /\ cookie_counts = r.counts
    /\ pc = CASE entry = "main" -> "main"
              [] entry = "process" -> "process"
              [] OTHER -> "select"
    /\ stream = "unopened"
    /\ rows_read = 0
    /\ record = << >>
    /\ yielded = << >>
    /\ processed_entries = 0
    /\ relevant_entries = 0
    /\ warnings = 0
    /\ most_active = << >>
    /\ raised = "none"
    /\ stdout = << >>
    /\ exit_status = << >>

(***************************************************************************)
(* main.py and arg_parser.py                                               *)
(***************************************************************************)

\* parse_arguments: argparse turns an ArgumentTypeError of either validator
\* into parser.error(), which exits the interpreter with status 2
\* (SystemExit is not an Exception: main's handlers do not see it).
ParseArguments ==
    /\ pc = "main"
    /\ IF validate_file_exists(file) /\ validate_date_format(target_date)
       THEN /\ pc' = "process"
            /\ UNCHANGED exit_status
       ELSE /\ pc' = "exited"
            /\ exit_status' = << 2 >>
    /\ UNCHANGED << entry, file, target_date, stream, rows_read, record,
                    yielded, cookie_counts, processed_entries,
                    relevant_entries, warnings, most_active, raised, stdout >>

(***************************************************************************)
(* _read_cookie_log: the generator                                         *)
(***************************************************************************)

\* The exception open() raises for the file, "none" when it opens.
OpenError(f) ==
    CASE f.kind = "missing" -> "FileNotFoundError"
      [] f.kind = "directory" -> "IsADirectoryError"
      [] f.kind = "unreadable" -> "PermissionError"
      [] OTHER -> "none"

\* Mutant of OpenFile: a file that does not open is taken for a log without
\* records.
OpenFileSwallowsError ==
    /\ pc = "process"
    /\ IF OpenError(file) = "none"
       THEN /\ stream' = "open"
            /\ pc' = "header"
       ELSE /\ pc' = "select"
            /\ UNCHANGED stream
    /\ UNCHANGED << entry, file, target_date, rows_read, record, yielded,
                    cookie_counts, processed_entries, relevant_entries,
                    warnings, most_active, raised, exit_status, stdout >>

\* The first next() of the for loop runs the generator up to open().
OpenFile ==
    /\ pc = "process"
    /\ IF OpenError(file) = "none"
       THEN /\ stream' = "open"
            /\ pc' = "header"
            /\ UNCHANGED raised
       ELSE /\ raised' = OpenError(file)
            /\ pc' = "raise"
            /\ UNCHANGED stream
    /\ UNCHANGED << entry, file, target_date, rows_read, record, yielded,
                    cookie_counts, processed_entries, relevant_entries,
                    warnings, most_active, exit_status, stdout >>

\* Mutant of ReadHeader: a first row that is not the expected header is
\* left in the reader, to be handled as a record.
ReadHeaderKeepsUnexpected ==
    /\ pc = "header"
    /\ IF file.lines = << >>
       THEN /\ raised' = "ValueError"
            /\ stream' = "closed"
            /\ pc' = "raise"
            /\ UNCHANGED << rows_read, warnings >>
       ELSE /\ rows_read' = IF file.lines[1] /= expected_header THEN 0 ELSE 1
            /\ warnings' = IF file.lines[1] /= expected_header
                           THEN warnings + 1 ELSE warnings
            /\ pc' = "next"
            /\ UNCHANGED << raised, stream >>
    /\ UNCHANGED << entry, file, target_date, record, yielded, cookie_counts,
                    processed_entries, relevant_entries, most_active,
                    exit_status, stdout >>

\* Mutant of ReadHeader: an input without any row ends the generator
\* quietly instead of raising.
ReadHeaderEmptyReturns ==
    /\ pc = "header"
    /\ IF file.lines = << >>
       THEN /\ stream' = "closed"
            /\ pc' = "select"
            /\ UNCHANGED << rows_read, warnings >>
       ELSE /\ rows_read' = 1
            /\ warnings' = IF file.lines[1] /= expected_header
                           THEN warnings + 1 ELSE warnings
            /\ pc' = "next"
            /\ UNCHANGED stream
    /\ UNCHANGED << entry, file, target_date, record, yielded, cookie_counts,
                    processed_entries, relevant_entries, most_active, raised,
                    exit_status, stdout >>

\* header = next(reader, None): no row at all raises ValueError("Empty
\* file") out of the with block; any other first row is dropped, with a
\* warning when it is not the expected one.
ReadHeader ==
    /\ pc = "header"
    /\ IF file.lines = << >>
       THEN /\ raised' = "ValueError"
            /\ stream' = "closed"
            /\ pc' = "raise"
            /\ UNCHANGED << rows_read, warnings >>
       ELSE /\ rows_read' = 1
            /\ warnings' = IF file.lines[1] /= expected_header
                           THEN warnings + 1 ELSE warnings
            /\ pc' = "next"
            /\ UNCHANGED << raised, stream >>
    /\ UNCHANGED << entry, file, target_date, record, yielded, cookie_counts,
                    processed_entries, relevant_entries, most_active,
                    exit_status, stdout >>

\* The row the reader hands out next.
NextRow == file.lines[rows_read + 1]

\* len(row) != 2
Malformed(row) == Len(row) /= 2

\* Mutant of EmptyValues: the fields are tested before strip().
EmptyValuesUnstripped(row) == row[1] = << >> \/ row[2] = << >>

\* not cookie or not timestamp, after strip()
EmptyValues(row) == Strip(row[1]) = << >> \/ Strip(row[2]) = << >>

\* Mutant of SkipMalformedLine: the malformed row is not consumed, the
\* loop meets it again.
SkipMalformedLineRereads ==
    /\ pc = "next"
    /\ rows_read < Len(file.lines)
    /\ Malformed(NextRow)
    /\ UNCHANGED vars

\* for row in reader: a row without exactly two fields is skipped.
SkipMalformedLine ==
    /\ pc = "next"
    /\ rows_read < Len(file.lines)
    /\ Malformed(NextRow)
    /\ rows_read' = rows_read + 1
    /\ warnings' = warnings + 1
    /\ UNCHANGED << entry, file, target_date, pc, stream, record, yielded,
                    cookie_counts, processed_entries, relevant_entries,
                    most_active, raised, stdout, exit_status >>

\* for row in reader: a row with an empty field after strip() is skipped.
SkipEmptyValues ==
    /\ pc = "next"
    /\ rows_read < Len(file.lines)
    /\ ~Malformed(NextRow)
    /\ EmptyValues(NextRow)
    /\ rows_read' = rows_read + 1
    /\ warnings' = warnings + 1
    /\ UNCHANGED << entry, file, target_date, pc, stream, record, yielded,
                    cookie_counts, processed_entries, relevant_entries,
                    most_active, raised, stdout, exit_status >>

\* yield cookie, timestamp: the loop body of _count_cookies_for_date gets
\* the stripped pair and counts it as processed.
YieldRecord ==
    /\ pc = "next"
    /\ rows_read < Len(file.lines)
    /\ ~Malformed(NextRow)
    /\ ~EmptyValues(NextRow)
    /\ record' = << Strip(NextRow[1]), Strip(NextRow[2]) >>
    /\ rows_read' = rows_read + 1
    /\ yielded' = Append(yielded, rows_read + 1)
    /\ processed_entries' = processed_entries + 1
    /\ pc' = "body"
    /\ UNCHANGED << entry, file, target_date, stream, cookie_counts,
                    relevant_entries, warnings, most_active, raised, stdout,
                    exit_status >>

\* The reader is exhausted: the with block ends, the generator returns and
\* the for loop of _count_cookies_for_date ends.
Exhausted ==
    /\ pc = "next"
    /\ rows_read = Len(file.lines)
    /\ stream' = "closed"
    /\ pc' = "select"
    /\ UNCHANGED << entry, file, target_date, rows_read, record, yielded,
                    cookie_counts, processed_entries, relevant_entries,
                    warnings, most_active, raised, stdout, exit_status >>

\* Reading a line fails (an OSError of the device, a UnicodeDecodeError of
\* the utf-8 decoder): neither except clause of _read_cookie_log matches,
\* the with block closes the file and the exception leaves the generator.
ReadFails ==
    /\ pc \in {"header", "next"}
    /\ raised' = "OSError"
    /\ stream' = "closed"
    /\ pc' = "raise"
    /\ UNCHANGED << entry, file, target_date, rows_read, record, yielded,
                    cookie_counts, processed_entries, relevant_entries,
                    warnings, most_active, stdout, exit_status >>

(***************************************************************************)
(* _count_cookies_for_date: the loop body                                  *)
(***************************************************************************)

\* Mutant of Increment: cookie_counts[cookie] = 1 in place of += 1.
IncrementOverwrites(counts, cookie) ==
    IF \E i \in 1..Len(counts) : counts[i].cookie = cookie
    THEN [ i \in 1..Len(counts) |->
               IF counts[i].cookie = cookie
               THEN [counts[i] EXCEPT !.count = 1]
               ELSE counts[i] ]
    ELSE Append(counts, [cookie |-> cookie, count |-> 1])

\* cookie_counts[cookie] += 1 on a defaultdict(int): a new key goes last.
Increment(counts, cookie) ==
    IF \E i \in 1..Len(counts) : counts[i].cookie = cookie
    THEN [ i \in 1..Len(counts) |->
               IF counts[i].cookie = cookie
               THEN [counts[i] EXCEPT !.count = @ + 1]
               ELSE counts[i] ]
    ELSE Append(counts, [cookie |-> cookie, count |-> 1])

\* Mutant of OnTargetDate: entry_date >= self.target_date.
OnOrAfterTargetDate(entry_date, target) == ~StrLess(entry_date, target)

\* entry_date == self.target_date
OnTargetDate(entry_date, target) == entry_date = target

\* Mutant of BeforeTargetDate: the comparison the other way round.
AfterTargetDate(entry_date, target) == StrLess(target, entry_date)

\* entry_date < self.target_date
BeforeTargetDate(entry_date, target) == StrLess(entry_date, target)

\* Mutant of SkipInvalidTimestamp: the except clause ends the loop.
SkipInvalidTimestampBreaks ==
    /\ pc = "body"
    /\ ExtractDateRaises(record[2])
    /\ warnings' = warnings + 2
    /\ stream' = "closed"
    /\ pc' = "select"
    /\ UNCHANGED << entry, file, target_date, rows_read, record, yielded,
                    cookie_counts, processed_entries, relevant_entries,
                    most_active, raised, stdout, exit_status >>

\* _extract_date raises ValueError: the except clause logs a warning and
\* the loop goes on with the next pair.
SkipInvalidTimestamp ==
    /\ pc = "body"
    /\ ExtractDateRaises(record[2])
    /\ warnings' = warnings + 2
    /\ pc' = "next"
    /\ UNCHANGED << entry, file, target_date, stream, rows_read, record,
                    yielded, cookie_counts, processed_entries,
                    relevant_entries, most_active, raised, stdout,
                    exit_status >>

\* The entry is dated on the target date: it is counted.
CountCookie ==
    /\ pc = "body"
    /\ ~ExtractDateRaises(record[2])
    /\ OnTargetDate(extract_date(record[2]), target_date)
    /\ cookie_counts' = Increment(cookie_counts, record[1])
    /\ relevant_entries' = relevant_entries + 1
    /\ pc' = "next"
    /\ UNCHANGED << entry, file, target_date, stream, rows_read, record,
                    yielded, processed_entries, warnings, most_active,
                    raised, stdout, exit_status >>

\* Mutant of StopScan: no break, the loop goes on with the next pair.
StopScanKeepsReading ==
    /\ pc = "body"
    /\ ~ExtractDateRaises(record[2])
    /\ ~OnTargetDate(extract_date(record[2]), target_date)
    /\ BeforeTargetDate(extract_date(record[2]), target_date)
    /\ pc' = "next"
    /\ UNCHANGED << entry, file, target_date, stream, rows_read, record,
                    yielded, cookie_counts, processed_entries,
                    relevant_entries, warnings, most_active, raised, stdout,
                    exit_status >>

\* Mutant of StopScan: the loop ends with the generator left suspended in
\* its with block, the file open.
StopScanLeavesOpen ==
    /\ pc = "body"
    /\ ~ExtractDateRaises(record[2])
    /\ ~OnTargetDate(extract_date(record[2]), target_date)
    /\ BeforeTargetDate(extract_date(record[2]), target_date)
    /\ pc' = "select"
    /\ UNCHANGED << entry, file, target_date, stream, rows_read, record,
                    yielded, cookie_counts, processed_entries,
                    relevant_entries, warnings, most_active, raised, stdout,
                    exit_status >>

\* The entry is dated before the target date: break.  The for statement
\* drops the generator, whose finalizer raises GeneratorExit at the yield:
\* the with block closes the file.
StopScan ==
    /\ pc = "body"
    /\ ~ExtractDateRaises(record[2])
    /\ ~OnTargetDate(extract_date(record[2]), target_date)
    /\ BeforeTargetDate(extract_date(record[2]), target_date)
    /\ stream' = "closed"
    /\ pc' = "select"
    /\ UNCHANGED << entry, file, target_date, rows_read, record, yielded,
                    cookie_counts, processed_entries, relevant_entries,
                    warnings, most_active, raised, stdout, exit_status >>

\* The entry is dated after the target date: neither branch, next pair.
SkipLaterDate ==
    /\ pc = "body"
    /\ ~ExtractDateRaises(record[2])
    /\ ~OnTargetDate(extract_date(record[2]), target_date)
    /\ ~BeforeTargetDate(extract_date(record[2]), target_date)
    /\ pc' = "next"
    /\ UNCHANGED << entry, file, target_date, stream, rows_read, record,
                    yielded, cookie_counts, processed_entries,
                    relevant_entries, warnings, most_active, raised, stdout,
                    exit_status >>

(***************************************************************************)
(* _find_most_active                                                       *)
(***************************************************************************)

\* max(cookie_counts.values()), for a dict that is not empty.
MaxCount(counts) ==
    CHOOSE m \in { counts[i].count : i \in 1..Len(counts) } :
        \A i \in 1..Len(counts) : counts[i].count <= m

\* [cookie for cookie, count in cookie_counts.items() if count == max_count]
RECURSIVE WithCount(_, _)
WithCount(counts, n) ==
    IF counts = << >> THEN << >>
    ELSE IF Head(counts).count = n
         THEN << Head(counts).cookie >> \o WithCount(Tail(counts), n)
         ELSE WithCount(Tail(counts), n)

\* One step of sorted(): x put before the first element greater than it.
RECURSIVE Insert(_, _)
Insert(x, sortedSeq) ==
    IF sortedSeq = << >> THEN << x >>
    ELSE IF StrLess(x, Head(sortedSeq)) THEN << x >> \o sortedSeq
    ELSE << Head(sortedSeq) >> \o Insert(x, Tail(sortedSeq))

\* sorted(most_active) on a list of str
RECURSIVE Sorted(_)
Sorted(xs) ==
    IF xs = << >> THEN << >>
    ELSE Insert(xs[Len(xs)], Sorted(SubSeq(xs, 1, Len(xs) - 1)))

\* Mutant of find_most_active: only the first identifier with the maximum.
find_most_active_first(counts) ==
    IF counts = << >> THEN << >>
    ELSE << Head(WithCount(counts, MaxCount(counts))) >>

\* Mutant of find_most_active: the list is returned in dict order.
find_most_active_unsorted(counts) ==
    IF counts = << >> THEN << >>
    ELSE WithCount(counts, MaxCount(counts))

\* _find_most_active(cookie_counts)
find_most_active(counts) ==
    IF counts = << >> THEN << >>
    ELSE Sorted(WithCount(counts, MaxCount(counts)))

\* process(): most_active = self._find_most_active(cookie_counts)
FindMostActive ==
    /\ pc = "select"
    /\ most_active' = find_most_active(cookie_counts)
    /\ pc' = "return"
    /\ UNCHANGED << entry, file, target_date, stream, rows_read, record,
                    yielded, cookie_counts, processed_entries,
                    relevant_entries, warnings, raised, stdout, exit_status >>

(***************************************************************************)
(* process() ends; main prints and returns                                 *)
(***************************************************************************)

\* Called directly, process() or _find_most_active() returns the list to
\* its caller.
ProcessReturns ==
    /\ pc = "return"
    /\ entry /= "main"
    /\ pc' = "done"
    /\ UNCHANGED << entry, file, target_date, stream, rows_read, record,
                    yielded, cookie_counts, processed_entries,
                    relevant_entries, warnings, most_active, raised, stdout,
                    exit_status >>

\* process() called directly logs the error and raises it again.
ProcessRaises ==
    /\ pc = "raise"
    /\ entry = "process"
    /\ pc' = "done"
    /\ UNCHANGED << entry, file, target_date, stream, rows_read, record,
                    yielded, cookie_counts, processed_entries,
                    relevant_entries, warnings, most_active, raised, stdout,
                    exit_status >>

\* main: one print per cookie of the returned list, return 0.
MainPrints ==
    /\ pc = "return"
    /\ entry = "main"
    /\ stdout' = most_active
    /\ exit_status' = << 0 >>
    /\ pc' = "exited"
    /\ UNCHANGED << entry, file, target_date, stream, rows_read, record,
                    yielded, cookie_counts, processed_entries,
                    relevant_entries, warnings, most_active, raised >>

\* main: except Exception prints the error to stderr, return 1.
MainCatches ==
    /\ pc = "raise"
    /\ entry = "main"
    /\ exit_status' = << 1 >>
    /\ pc' = "exited"
    /\ UNCHANGED << entry, file, target_date, stream, rows_read, record,
                    yielded, cookie_counts, processed_entries,
                    relevant_entries, warnings, most_active, raised, stdout >>

Next ==
    \/ ParseArguments
    \/ OpenFile
    \/ ReadHeader
    \/ SkipMalformedLine
    \/ SkipEmptyValues
    \/ YieldRecord
    \/ Exhausted
    \/ ReadFails
    \/ SkipInvalidTimestamp
    \/ CountCookie
    \/ StopScan
    \/ SkipLaterDate
    \/ FindMostActive
    \/ ProcessReturns
    \/ ProcessRaises
    \/ MainPrints
    \/ MainCatches

Spec == Init /\ [][Next]_vars

\* The steps of the interpreter: every step but a read that fails, which
\* is the environment's.
Program ==
    \/ ParseArguments
    \/ OpenFile
    \/ ReadHeader
    \/ SkipMalformedLine
    \/ SkipEmptyValues
    \/ YieldRecord
    \/ Exhausted
    \/ SkipInvalidTimestamp
    \/ CountCookie
    \/ StopScan
    \/ SkipLaterDate
    \/ FindMostActive
    \/ ProcessReturns
    \/ ProcessRaises
    \/ MainPrints
    \/ MainCatches

\* The runs whose every behaviour is followed to its end: the logs one
\* line shorter than the longest, under the expected header.
FairInit ==
    /\ Init
    /\ Len(file.lines) <= MaxLines
    /\ file.lines /= << >> => file.lines[1] = expected_header

\* The run is one synchronous thread with no suspension point but blocking
\* reads: a step that can be taken is taken.
FairSpec == FairInit /\ [][Next]_vars /\ WF_vars(Program)

(***************************************************************************)
(* What the log holds, read off the file without running the scan          *)
(***************************************************************************)

\* s without its leading and trailing spaces.
Trimmed(s) ==
    IF \A i \in 1..Len(s) : s[i] = " " THEN << >>
    ELSE SubSeq(s,
                CHOOSE i \in 1..Len(s) :
                    s[i] /= " " /\ \A j \in 1..(i - 1) : s[j] = " ",
                CHOOSE i \in 1..Len(s) :
                    s[i] /= " " /\ \A j \in (i + 1)..Len(s) : s[j] = " ")

\* A valid record: exactly two fields, neither empty once trimmed.
ValidRecord(row) ==
    Len(row) = 2 /\ Trimmed(row[1]) /= << >> /\ Trimmed(row[2]) /= << >>

\* A valid record whose timestamp parses: it has a date.
Dated(row) == ValidRecord(row) /\ IsoParses(Trimmed(row[2]))

\* The calendar date of a dated record.
RecordDay(row) == IsoDate(Trimmed(row[2]))

\* The calendar date a date string accepted by the CLI names.
CalendarDay(date_string) ==
    LET p == Split(date_string, "-") IN
    [ year |-> ToInt(p[1], 1, Len(p[1])),
      month |-> ToInt(p[2], 1, Len(p[2])),
      day |-> ToInt(DayField(p[3]), 1, Len(DayField(p[3]))) ]

\* Calendar order.
DayBefore(d, e) ==
    \/ d.year < e.year
    \/ d.year = e.year /\ d.month < e.month
    \/ d.year = e.year /\ d.month = e.month /\ d.day < e.day

\* Lexicographic order of two strings, by position.
LexBefore(s, t) ==
    \E k \in 1..Len(t) :
        /\ \A j \in 1..(k - 1) : j <= Len(s) /\ s[j] = t[j]
        /\ \/ Len(s) = k - 1
           \/ Len(s) >= k /\ Ord(s[k]) < Ord(t[k])

\* The row numbers of the lines after the header.
BodyLines == 2..Len(file.lines)

\* The lines of the set rows that are records dated on the target date.
OnDateAmong(rows) ==
    LET target == CalendarDay(target_date) IN
    { i \in rows : Dated(file.lines[i]) /\ RecordDay(file.lines[i]) = target }

\* The lines after the header that are records dated on the target date.
OnDateLines == OnDateAmong(BodyLines)

\* The identifier of the record on line i.
IdentifierAt(i) == Trimmed(file.lines[i][1])

\* The number of records of identifier c among the lines of the set rows.
Occurrences(c, rows) == Cardinality({ i \in rows : IdentifierAt(i) = c })

\* The identifiers with the most records on the target date in the whole log.
Winners ==
    LET on == OnDateLines IN
    { c \in { IdentifierAt(i) : i \in on } :
          \A j \in on : Occurrences(IdentifierAt(j), on) <= Occurrences(c, on) }

\* The descending-sort precondition: dates never increase down the log.
SortedDescending ==
    LET dated == { i \in BodyLines : Dated(file.lines[i]) } IN
    \A i, j \in dated :
        i < j => ~DayBefore(RecordDay(file.lines[i]), RecordDay(file.lines[j]))

\* The target date is a YYYY-MM-DD string, as process() documents it.
TargetWellFormed == Len(target_date) = 10 /\ DateOk(target_date)

Range(q) == { q[i] : i \in 1..Len(q) }

StrictlyAscending(q) == \A i \in 1..(Len(q) - 1) : LexBefore(q[i], q[i + 1])

\* _find_most_active has returned its list.
Selected ==
    /\ raised = "none"
    /\ pc \in {"return", "done"} \/ (pc = "exited" /\ exit_status = << 0 >>)

\* The scan ran (the file opened and had a header) and process() returned.
ScanReturned == entry \in {"main", "process"} /\ Selected

\* The scan ended at a record before the last line was read.
StoppedEarly == ScanReturned /\ rows_read < Len(file.lines)

\* The lines the reader handed out whose handling is over: every line read,
\* but the pair the loop body still holds.
SettledLines ==
    (2..rows_read) \ (IF pc = "body" THEN { rows_read } ELSE { })

\* The count the dict holds for identifier c (0: no such key).
RECURSIVE CountOf(_, _)
CountOf(counts, c) ==
    IF counts = << >> THEN 0
    ELSE (IF Head(counts).cookie = c THEN Head(counts).count ELSE 0)
             + CountOf(Tail(counts), c)

\* The sum of the counts of the dict.
RECURSIVE TotalCount(_)
TotalCount(counts) ==
    IF counts = << >> THEN 0
    ELSE Head(counts).count + TotalCount(Tail(counts))

\* The dict holds, for every identifier, the number of its records dated on
\* the target date among the lines of the set rows, and no other key.
CountsAreOccurrences(rows) ==
    LET on == OnDateAmong(rows)
        ids == { IdentifierAt(i) : i \in on }
    IN  /\ \A i \in 1..Len(cookie_counts) :
               /\ cookie_counts[i].cookie \in ids
               /\ \A j \in 1..Len(cookie_counts) :
                      cookie_counts[i].cookie = cookie_counts[j].cookie => i = j
        /\ \A c \in ids : CountOf(cookie_counts, c) = Occurrences(c, on)

\* The scan goes on after the line read last: nothing was raised and,
\* unless that line was the last one, the reader is open and about to read.
ScanGoesOn ==
    /\ raised = "none"
    /\ rows_read < Len(file.lines) => (pc = "next" /\ stream = "open")

\* A failed read ended the run.
ReadFailed == raised = "OSError"

(***************************************************************************)
(* Claims                                                                  *)
(***************************************************************************)

\* C1: for a log sorted by date descending and a YYYY-MM-DD target date,
\* process() returns exactly the identifiers with the most records on the
\* target date in the whole log, in ascending order: what a scan of every
\* line would give, early exit or not.
C1_MostActiveOfSortedLog ==
    (ScanReturned /\ TargetWellFormed /\ SortedDescending)
        => /\ Range(most_active) = Winners
           /\ StrictlyAscending(most_active)

\* C1 witness: a sorted log, the scan stopped before its last line and
\* returned a winner.
C1_Witness ==
    /\ StoppedEarly /\ TargetWellFormed /\ SortedDescending
    /\ pc = "exited"
    /\ most_active /= << >>
    /\ rows_read + 1 \in BodyLines

\* C2: for a dict that is not empty, _find_most_active returns every
\* identifier whose count is the maximum and none whose count is smaller;
\* tied identifiers are all returned.
C2_AllMaximalReturned ==
    (Selected /\ cookie_counts /= << >>)
        => Range(most_active) =
               { cookie_counts[i].cookie : i \in
                     { k \in 1..Len(cookie_counts) :
                           \A j \in 1..Len(cookie_counts) :
                               cookie_counts[j].count <= cookie_counts[k].count } }

\* C2 witness: a dict of three identifiers, two of them tied at the maximum.
C2_Witness ==
    /\ entry = "find_most_active" /\ pc = "done"
    /\ Len(cookie_counts) = 3
    /\ Len(most_active) = 2

\* C3: the list returned by _find_most_active and by process() is strictly
\* ascending: sorted, no identifier twice.
C3_ResultStrictlyAscending ==
    StrictlyAscending(most_active) /\ StrictlyAscending(stdout)

\* C3 witness: process() returned two tied identifiers, the greater one
\* met first in the log.
C3_Witness ==
    /\ ScanReturned /\ pc = "exited"
    /\ Len(cookie_counts) = 2
    /\ LexBefore(cookie_counts[2].cookie, cookie_counts[1].cookie)
    /\ Len(stdout) = 2

\* C4: when the log has a header and no valid record dated on the target
\* date, the dict stays empty, process() returns the empty list without
\* raising, and main prints no line and returns status 0.
C4_NoActivityIsEmptyResult ==
    ( /\ pc \in {"done", "exited"}
      /\ entry \in {"main", "process"}
      /\ file.kind = "regular" /\ file.lines /= << >>
      /\ ~ReadFailed
      /\ entry = "main" => validate_date_format(target_date)
      /\ OnDateLines = { } )
        => /\ cookie_counts = << >>
           /\ raised = "none"
           /\ most_active = << >>
           /\ entry = "main" => (stdout = << >> /\ exit_status = << 0 >>)

\* C4 witness: main ended on a log whose records are dated after and
\* before the target date.
C4_Witness ==
    /\ pc = "exited" /\ exit_status = << 0 >>
    /\ OnDateLines = { }
    /\ \E i, j \in BodyLines :
           /\ Dated(file.lines[i]) /\ Dated(file.lines[j])
           /\ DayBefore(CalendarDay(target_date), RecordDay(file.lines[i]))
           /\ DayBefore(RecordDay(file.lines[j]), CalendarDay(target_date))

\* C5: a malformed line (not two fields, or a field empty once trimmed) is
\* skipped wherever it stands: it is never handed to the loop body, the
\* scan goes on after it, every valid line read is handed over, and the
\* counts are those of the on-date records read, as if it were absent.
C5_MalformedLineSkipped ==
    /\ \A k \in 1..Len(yielded) : ValidRecord(file.lines[yielded[k]])
    /\ \A i \in 2..rows_read :
           ValidRecord(file.lines[i]) => i \in Range(yielded)
    /\ (rows_read >= 2 /\ ~ValidRecord(file.lines[rows_read]) /\ ~ReadFailed)
           => ScanGoesOn
    /\ (entry \in {"main", "process"} /\ TargetWellFormed)
           => CountsAreOccurrences(SettledLines)

\* C5 witness: a malformed line between two counted on-date records.
C5_Witness ==
    /\ ScanReturned /\ TargetWellFormed
    /\ \E i \in BodyLines :
           /\ ~ValidRecord(file.lines[i])
           /\ i - 1 \in OnDateLines /\ i + 1 \in OnDateLines
    /\ TotalCount(cookie_counts) = 2

\* C6: a record whose timestamp does not parse is skipped by the loop body:
\* the scan goes on after it, the record at which a scan stops early always
\* has a date, and the counts add up to the on-date records handled.
C6_InvalidTimestampSkipped ==
    /\ ( /\ rows_read >= 2
         /\ ValidRecord(file.lines[rows_read]) /\ ~Dated(file.lines[rows_read])
         /\ pc /= "body" /\ ~ReadFailed )
           => ScanGoesOn
    /\ StoppedEarly => Dated(file.lines[rows_read])
    /\ (entry \in {"main", "process"} /\ TargetWellFormed)
           => TotalCount(cookie_counts)
                  = Cardinality(OnDateAmong(SettledLines))

\* C6 witness: an on-date record counted after a record whose timestamp
\* does not parse.
C6_Witness ==
    /\ ScanReturned /\ TargetWellFormed
    /\ \E i \in BodyLines :
           /\ ValidRecord(file.lines[i]) /\ ~Dated(file.lines[i])
           /\ i + 1 \in OnDateLines
    /\ TotalCount(cookie_counts) = 1

\* C7: the loop body is handed at most one record dated before the target
\* date, the last one it sees: no later line is read, the scan is over and
\* the stream closed once it is handled; and a scan stops early at such a
\* record only.
C7_StopsAtFirstEarlierRecord ==
    (entry \in {"main", "process"} /\ TargetWellFormed)
        => LET target == CalendarDay(target_date)
               Earlier(i) == /\ Dated(file.lines[i])
                             /\ DayBefore(RecordDay(file.lines[i]), target)
           IN  /\ \A k \in 1..Len(yielded) :
                      Earlier(yielded[k])
                          => /\ k = Len(yielded)
                             /\ rows_read = yielded[k]
                             /\ pc /= "body"
                                    => /\ pc \in {"select", "return", "done", "exited"}
                                       /\ stream = "closed"
                                       /\ raised = "none"
               /\ StoppedEarly => Earlier(rows_read)

\* C7 witness: a sorted log, the scan over at a record dated before the
\* target date with a line after it left unread.
C7_Witness ==
    /\ StoppedEarly /\ TargetWellFormed /\ SortedDescending
    /\ Len(yielded) = 2
    /\ rows_read + 1 \in BodyLines
    /\ Dated(file.lines[rows_read + 1])

\* C8 (as stated): the exit status tells three outcomes apart: success, a
\* fatal input error (the input file missing or unreadable) and a usage
\* error (a malformed argument); a run that fails on a missing file never
\* ends with the status of a run that fails on a malformed date.
C8_Original ==
    (pc = "exited" /\ entry = "main")
        => /\ (file.kind \in {"missing", "unreadable"} /\ target_date = DateCanonical)
                  => exit_status = << 1 >>
           /\ (file.kind = "regular" /\ file.lines /= << >> /\ target_date = DateMalformed)
                  => exit_status = << 2 >>
           /\ raised = "none" /\ stream = "closed" => exit_status = << 0 >>

\* C8 (amended): the exit status is 0 when process() returned, 1 when
\* process() raised (the file could not be opened or read once the
\* arguments were accepted) and 2 when argument parsing rejected an
\* argument, process() never called: a malformed date, and also a file that
\* is missing, not a regular file or empty.
C8_ExitStatusByStage ==
    (pc = "exited" /\ entry = "main")
        => /\ exit_status \in { << 0 >>, << 1 >>, << 2 >> }
           /\ exit_status = << 0 >> <=> (raised = "none" /\ stream = "closed")
           /\ exit_status = << 1 >> <=> raised /= "none"
           /\ exit_status = << 2 >> <=> (raised = "none" /\ stream = "unopened")
           /\ exit_status = << 2 >>
                  <=> \/ target_date = DateMalformed
                      \/ file.kind \in {"missing", "directory"}
                      \/ file.lines = << >>
           /\ (file.kind = "unreadable" /\ target_date /= DateMalformed)
                  => exit_status = << 1 >>

\* C8 witness: main ended with status 2 on a missing file and a well-formed
\* date.
C8_Witness ==
    /\ pc = "exited" /\ entry = "main"
    /\ file.kind = "missing" /\ target_date = DateCanonical
    /\ exit_status = << 2 >>

\* C9 (as stated): when the input has no header line at all, the reader
\* yields nothing and process() returns an empty list instead of raising.
C9_Original ==
    ( /\ pc \in {"raise", "return", "done", "exited"}
      /\ file.kind = "regular" /\ file.lines = << >>
      /\ stream /= "unopened" /\ ~ReadFailed )
        => (raised = "none" /\ most_active = << >>)

\* C9 (amended): when the input has no header line at all, the reader
\* yields nothing and raises ValueError; process() raises it again instead
\* of returning a list, with the stream closed and nothing counted.
C9_NoHeaderRaises ==
    ( /\ pc \in {"raise", "return", "done", "exited"}
      /\ file.kind = "regular" /\ file.lines = << >>
      /\ stream /= "unopened" /\ ~ReadFailed )
        => /\ raised = "ValueError"
           /\ pc \in {"raise", "done"}
           /\ yielded = << >> /\ cookie_counts = << >> /\ most_active = << >>
           /\ stream = "closed"

\* C9 witness: process() called on an empty file has raised ValueError.
C9_Witness ==
    /\ entry = "process" /\ pc = "done"
    /\ file.kind = "regular" /\ file.lines = << >>
    /\ raised = "ValueError"

\* C10: once the scan is over, whichever way (input exhausted, early stop,
\* no header, a read that failed), the stream that was opened is closed: no
\* run ends with it open.
C10_StreamClosedOnEveryExit ==
    pc \in {"select", "return", "raise", "done", "exited"} => stream /= "open"

\* C10 witness: process() returned to main after an early stop, the stream
\* closed with lines left unread.
C10_Witness ==
    /\ StoppedEarly /\ pc = "exited"
    /\ stream = "closed"
    /\ rows_read + 1 \in BodyLines

\* The run is over: process() called directly returned or raised, or the
\* interpreter of main exited.
Terminated == pc \in {"done", "exited"}

\* C11: when the input cannot be opened (no such file, a directory, a file
\* open() refuses) or a read fails, process() raises instead of returning a
\* list, not even an empty one, and main prints no identifier and ends with
\* a status other than 0.
C11_UnavailableSourcePropagates ==
    ( /\ Terminated
      /\ entry \in {"main", "process"}
      /\ file.kind \in {"missing", "directory", "unreadable"} \/ ReadFailed )
        => /\ most_active = << >>
           /\ entry = "process" => raised /= "none"
           /\ entry = "main"
                  => /\ stdout = << >>
                     /\ \/ exit_status = << 2 >> /\ stream = "unopened"
                        \/ exit_status = << 1 >> /\ raised /= "none"

\* C11 witness: main ended with status 1 and no output on a file that
\* open() refused.
C11_Witness ==
    /\ entry = "main" /\ pc = "exited"
    /\ file.kind = "unreadable" /\ raised = "PermissionError"
    /\ exit_status = << 1 >> /\ stdout = << >>

\* C12: every run over a finite log ends, process() returning a list or
\* raising, and the reader hands out each line at most once: it moves
\* forward one line at a time and never past the last line.
C12_RunEnds ==
    /\ <>Terminated
    /\ [][rows_read' \in {rows_read, rows_read + 1}]_vars
    /\ [](rows_read <= Len(file.lines))

\* C12 witness: a run over a log with a malformed line and an on-date
\* record has ended with every line read.
C12_Witness ==
    /\ Terminated /\ entry \in {"main", "process"}
    /\ rows_read = Len(file.lines) /\ rows_read = MaxLines
    /\ \E i \in BodyLines : ~ValidRecord(file.lines[i])
    /\ OnDateLines /= { }

\* C13: at every point of the scan with a YYYY-MM-DD target date, the dict
\* holds for each identifier the number of valid records of that trimmed
\* identifier dated on the target date among the lines handled so far, and
\* no other key; so the counts sum to the number of on-date records handled,
\* every stored count is at least 1, and a line that is malformed, does not
\* parse or falls on another date has left the dict as it was.
C13_CountsMatchRecordsRead ==
    (entry \in {"main", "process"} /\ TargetWellFormed)
        => LET on == OnDateAmong(SettledLines) IN
           /\ \A c \in Cookies \cup { IdentifierAt(i) : i \in on } :
                  CountOf(cookie_counts, c) = Occurrences(c, on)
           /\ \A i, j \in 1..Len(cookie_counts) :
                  cookie_counts[i].cookie = cookie_counts[j].cookie => i = j
           /\ \A i \in 1..Len(cookie_counts) : cookie_counts[i].count >= 1
           /\ TotalCount(cookie_counts) = Cardinality(on)
           /\ relevant_entries = Cardinality(on)

\* C13 witness: the loop is still running, an identifier stands at two and
\* a line that is not an on-date record has been handled.
C13_Witness ==
    /\ entry \in {"main", "process"} /\ TargetWellFormed
    /\ pc = "next" /\ stream = "open"
    /\ \E i \in 1..Len(cookie_counts) : cookie_counts[i].count = 2
    /\ SettledLines \ OnDateAmong(SettledLines) /= { }

\* The days from 0001-01-01 to the calendar date d, that day included.
DayNumber(d) ==
    LET y == d.year - 1
        RECURSIVE DaysBefore(_)
        DaysBefore(m) ==
            IF m = 1 THEN 0 ELSE DaysInMonth(d.year, m - 1) + DaysBefore(m - 1)
    IN  365 * y + (y \div 4) - (y \div 100) + (y \div 400)
            + DaysBefore(d.month) + d.day

\* A dated record whose timestamp carries a time and a UTC offset.
HasOffset(row) == Dated(row) /\ Len(Trimmed(row[2])) = 25

\* The instant the timestamp of such a record names: the local date and
\* time less the offset, as a UTC day number and a second of that day.
Instant(row) ==
    LET s == Trimmed(row[2])
        local == 3600 * ToInt(s, 12, 13) + 60 * ToInt(s, 15, 16)
                     + ToInt(s, 18, 19)
        offset == 3600 * ToInt(s, 21, 22) + 60 * ToInt(s, 24, 25)
        utc == IF s[20] = "+" THEN local - offset ELSE local + offset
    IN  [ day |-> DayNumber(IsoDate(s)) + (utc + 86400) \div 86400 - 1,
          second |-> (utc + 86400) % 86400 ]

\* Instant t is not before instant u.
NotBefore(t, u) == t.day > u.day \/ (t.day = u.day /\ t.second >= u.second)

\* The records are ordered by timestamp descending as instants in time:
\* every dated record names an instant, and instants never increase down
\* the log.
SortedByInstant ==
    LET dated == { i \in BodyLines : Dated(file.lines[i]) } IN
    /\ \A i \in dated : HasOffset(file.lines[i])
    /\ \A i, j \in dated :
           i < j => NotBefore(Instant(file.lines[i]), Instant(file.lines[j]))

\* C14: in a log ordered by timestamp descending as instants in time, with
\* each record's date taken from its offset-local timestamp, when the scan
\* stops on a record dated before the target date no later line of the log
\* is a record dated on the target date.
C14_NoOnDateRecordAfterStop ==
    (StoppedEarly /\ TargetWellFormed /\ SortedByInstant)
        => \A i \in (rows_read + 1)..Len(file.lines) : i \notin OnDateLines

\* The first line is there and is not the expected header.
UnexpectedHeader == file.lines /= << >> /\ file.lines[1] /= expected_header

\* C15: the first line is consumed as the header and never handed out as a
\* record, whatever it holds; when it is not the expected header the reader
\* logs a warning and goes on (nothing is raised but for a failed read), and
\* the lines after it are handled as after the expected header: every valid
\* one is handed out, and the dict and the result are those of the lines
\* after the first alone.
C15_HeaderConsumedNotCounted ==
    /\ \A k \in 1..Len(yielded) : yielded[k] >= 2
    /\ (entry \in {"main", "process"} /\ pc \in {"next", "body"})
           => rows_read >= 1
    /\ (UnexpectedHeader /\ rows_read >= 1)
           => /\ warnings >= 1
              /\ raised \in {"none", "OSError"}
              /\ \A i \in 2..rows_read :
                     ValidRecord(file.lines[i]) => i \in Range(yielded)
              /\ TargetWellFormed
                     => /\ CountsAreOccurrences(SettledLines)
                        /\ (ScanReturned /\ ~StoppedEarly)
                               => Range(most_active) = Winners

\* C15 witness: the first line reads as an on-date record of one identifier,
\* the only line after it is an on-date record of another, and process()
\* has returned the second identifier alone.
C15_Witness ==
    /\ ScanReturned /\ TargetWellFormed
    /\ file.lines[1] = << CookieB, TsOnDate >>
    /\ Len(file.lines) = 2 /\ 2 \in OnDateLines
    /\ warnings = 1
    /\ most_active = << CookieA >>

\* C16: for a target date string that validate_date_format accepts and the
\* date extracted from a record, the loop's string comparisons (== for
\* counting, < for the early stop) answer as the comparison of the two
\* calendar dates does; so the dict never misses a record of the target's
\* calendar day among the lines handled.
C16_StringOrderIsCalendarOrder ==
    (entry \in {"main", "process"} /\ validate_date_format(target_date))
        => /\ (pc = "body" /\ ~ExtractDateRaises(record[2]))
                  => LET entry_date == extract_date(record[2])
                         day == IsoDate(record[2])
                         target == CalendarDay(target_date)
                     IN  /\ OnTargetDate(entry_date, target_date)
                                <=> day = target
                         /\ BeforeTargetDate(entry_date, target_date)
                                <=> DayBefore(day, target)
           /\ TotalCount(cookie_counts) = Cardinality(OnDateAmong(SettledLines))

====
